---- MODULE Spec2Model ----
(***************************************************************************)
(* Model of the benchmark execution engine of arewefastyet:                *)
(*   - package exec   (src/go/exec/exec.go lines 19-395): the Exec         *)
(*     lifecycle, Prepare and Execute, and the execution table of the      *)
(*     SQL store;                                                          *)
(*   - package server (src/go/exec/exec.go lines 415-584): the execution   *)
(*     queue, its watcher, executeElement with its retries, and the        *)
(*     comparator compareElement.                                          *)
(***************************************************************************)
EXTENDS Integers, Sequences, FiniteSets, TLC

(***************************************************************************)
(* Bounds of the model.                                                    *)
(***************************************************************************)
\* number of queue elements ever inserted by addToQueue
MaxElems == 2
\* largest retry budget the server is configured with
MaxRetry == 1
\* number of polling rounds a comparator is followed for
MaxPolls == 2
\* largest ceiling of concurrent executions the server is configured with
MaxCeiling == 2
\* number of Exec objects a direct user of package exec creates
MaxExecs == 2
\* number of times the INSERT of Prepare is followed on one Exec
MaxInserts == 2

(***************************************************************************)
(* Status values of the execution table.                                   *)
(***************************************************************************)
StatusNone == "none"
StatusCreated == "created"
StatusStarted == "started"
StatusFailed == "failed"
StatusFinished == "finished"

Status == {StatusCreated, StatusStarted, StatusFailed, StatusFinished}

(***************************************************************************)
(* executionIdentifier: the key of the queue.                              *)
(***************************************************************************)
Ident(src, ref, typ, planner, pull) ==
    [Source |-> src, GitRef |-> ref, BenchmarkType |-> typ,
     PlannerVersion |-> planner, PullNb |-> pull]

idA == Ident("pr", "abc123", "micro", "", 0)
idB == Ident("pr", "def456", "micro", "", 0)
idC == Ident("cron", "abc123", "oltp", "", 0)
\* idA, for another pull request
idP == Ident("pr", "abc123", "micro", "", 1)

\* the identifiers submitted to the queue, and those named as compare-with targets
Ids == {idA, idB}
\* the identifiers the queue is keyed by
QueueIds == {idA, idB, idP}
Targets == {idA, idB, idC}
NoId == Ident("", "", "", "", 0)

\* uuid.New(): each element draws the uuids of its attempts from a range of its own
UUIDsPerElem == MaxRetry + 2
NumUUIDs == MaxElems * UUIDsPerElem
UUIDs == 1..NumUUIDs
\* row 0 stands for a row written by an earlier process
Rows == 0..NumUUIDs

\* a row of the execution table: the columns the INSERT of Prepare names
NoRow == [status |-> StatusNone, source |-> "", git_ref |-> "", type |-> ""]
NoExec == [phase |-> "none", prepared |-> FALSE, clientDB |-> FALSE,
           Source |-> "", GitRef |-> "", typeOf |-> "", err |-> "nil"]

VARIABLES
    execs,      \* the Exec objects, by uuid
    store,      \* the execution table: uuid -> row
    written     \* history: the statuses written to each row, in order

execVars == <<execs, store, written>>

(***************************************************************************)
(* An Exec with its row of the execution table and the history of the row. *)
(***************************************************************************)
World(x) == [exec |-> execs[x], row |-> store[x], log |-> written[x]]

Put(x, w) ==
    /\ execs' = [execs EXCEPT ![x] = w.exec]
    /\ store' = [store EXCEPT ![x] = w.row]
    /\ written' = [written EXCEPT ![x] = w.log]

\* INSERT INTO execution(uuid, status, source, git_ref, type)
InsertW(w) ==
    [w EXCEPT !.row = [status |-> StatusCreated, source |-> w.exec.Source,
                       git_ref |-> w.exec.GitRef, type |-> w.exec.typeOf],
              !.log = Append(@, StatusCreated)]

\* mysql.Client.Insert on the client of the Exec: a client that was never
\* created returns an error and writes nothing
ClientWrites(w, ok) == w.exec.clientDB /\ ok

\* UPDATE execution SET status = ? WHERE uuid = ?
\* ok: the store carries the statement out; without a row it changes nothing
UpdateW(w, status, ok) ==
    IF ClientWrites(w, ok) /\ w.row.status # StatusNone
    THEN [w EXCEPT !.row.status = status, !.log = Append(@, status)]
    ELSE w

(***************************************************************************)
(* Exec.Prepare.  out names the step that fails, or "ok".                  *)
(***************************************************************************)
PrepareOutcomes == {"ok", "ErrDB", "ErrInsert", "ErrDir", "ErrInfra"}

\* the outcomes in which Prepare returns before or at its INSERT
InsertOutcomes == {"ErrDB", "ErrInsert"}

\* Prepare of an Exec that is not prepared, up to the INSERT: mysql.New, INSERT
PrepareInsertW(w, out) ==
    LET w1 == [w EXCEPT !.exec.clientDB = (out # "ErrDB")]
    IN  IF out \in InsertOutcomes THEN w1 ELSE InsertW(w1)

\* Prepare after the INSERT: prepareDirectories, Infra.Prepare, prepared = true
PrepareRestW(w, out) == [w EXCEPT !.exec.prepared = (out = "ok")]

PrepareW(w, out) ==
    IF w.exec.prepared
    THEN w
    ELSE IF out \in InsertOutcomes
    THEN PrepareInsertW(w, out)
    ELSE PrepareRestW(PrepareInsertW(w, out), out)

\* the error Prepare returns
PrepareErr(w, out) == IF w.exec.prepared THEN "nil" ELSE IF out = "ok" THEN "nil" ELSE out

(***************************************************************************)
(* Exec.Execute, in two steps: up to the Started update, and from the      *)
(* provisioning to the return.  The deferred function writes the terminal  *)
(* status on every return; the result of that write is discarded.          *)
(***************************************************************************)
\* mutant: the deferred function reads a shadowed err, which is always nil
TerminalStatusShadowed(err) == StatusFinished

\* the status the deferred function writes when Execute returns err
TerminalStatus(err) == IF err # "nil" THEN StatusFailed ELSE StatusFinished

\* Execute returns err: the deferred function runs
ExecuteReturnW(w, err, endOk) ==
    UpdateW([w EXCEPT !.exec.phase = "exited", !.exec.err = err],
            TerminalStatus(err), endOk)

\* mutant: Execute without the test of e.prepared
ExecuteBeginWUnchecked(w, startOk, endOk) ==
    IF ~startOk
    THEN ExecuteReturnW(w, "ErrStore", endOk)
    ELSE UpdateW([w EXCEPT !.exec.phase = "executing"], StatusStarted, TRUE)

ExecuteBeginW(w, startOk, endOk) ==
    IF ~w.exec.prepared
    THEN ExecuteReturnW(w, "ErrorNotPrepared", endOk)
    ELSE IF ~startOk
    THEN ExecuteReturnW(w, "ErrStore", endOk)
    ELSE UpdateW([w EXCEPT !.exec.phase = "executing"], StatusStarted, TRUE)

RunOutcomes == {"nil", "ErrProvision", "ErrAddIPs", "ErrConfigPath", "ErrRun"}

ExecuteFinishW(w, out, endOk) == ExecuteReturnW(w, out, endOk)

\* the deadline of ExecuteWithTimeout expiring is one more way for the run to fail
TimeoutOutcomes == {"ErrTimeout"}

(***************************************************************************)
(* The server: queue, in-flight counter, one executeElement goroutine and  *)
(* one comparator goroutine per element.                                   *)
(***************************************************************************)
Elems == 1..MaxElems

NoElem == [identifier |-> NoId, config |-> "", retry |-> 0,
           executing |-> FALSE, compareWith |-> <<>>]

VARIABLES
    queue,              \* map executionIdentifier -> element (0: no entry)
    elems,              \* the executionQueueElement objects
    nElems,             \* number of elements created so far
    currentCountExec,   \* the in-flight counter
    pc,                 \* position of each element's executeElement goroutine
    cpc,                \* position of each element's comparator goroutine
    done,               \* compareElement: local counter done
    cidx,               \* compareElement: position in the range loop
    polls,              \* compareElement: number of polling rounds begun
    raced,              \* a map write overlapped the unlocked lookup
    crashed,            \* the runtime stopped the process
    nbRetry,            \* the retry budget the server gives its elements
    maxConcurJob,       \* the ceiling of concurrent executions (configuration)
    attempts,           \* history: number of executeSingle calls per element
    sent,               \* history: sendNotificationForRegression calls
    cerr                \* history: compareElement returned on an error

serverVars == <<queue, elems, nElems, currentCountExec, pc, cpc, done, cidx,
                polls, raced, crashed, nbRetry, maxConcurJob, attempts, sent, cerr>>

vars == <<execs, store, written, queue, elems, nElems, currentCountExec, pc,
          cpc, done, cidx, polls, raced, crashed, nbRetry, maxConcurJob, attempts, sent,
          cerr>>

\* the compare-with lists a submission may carry: none, or the two other
\* identifiers in either order
CompareChoices(id) ==
    {<<>>} \cup {<<p[1], p[2]>> : p \in
                   {q \in (Targets \ {id}) \X (Targets \ {id}) : q[1] # q[2]}}

\* the uuid uuid.New() gives the Exec of the k-th attempt of element e
AttemptUUID(e, k) == (e - 1) * UUIDsPerElem + k
CurUUID(e) == AttemptUUID(e, attempts[e])

\* the store at start: empty, or holding a finished run of an earlier process
LegacyRow == [status |-> StatusFinished, source |-> idC.Source,
              git_ref |-> idC.GitRef, type |-> idC.BenchmarkType]

\* everything but the configured retry budget and the rows found in the store
InitRest ==
    /\ execs = [x \in UUIDs |-> NoExec]
    /\ written = [x \in Rows |-> <<>>]
    /\ queue = [id \in QueueIds |-> 0]
    /\ elems = [e \in Elems |-> NoElem]
    /\ nElems = 0
    /\ currentCountExec = 0
    /\ pc = [e \in Elems |-> "idle"]
    /\ cpc = [e \in Elems |-> "off"]
    /\ done = [e \in Elems |-> 0]
    /\ cidx = [e \in Elems |-> 0]
    /\ polls = [e \in Elems |-> 0]
    /\ raced = [e \in Elems |-> FALSE]
    /\ crashed = FALSE
    /\ attempts = [e \in Elems |-> 0]
    /\ sent = [e \in Elems |-> <<>>]
    /\ cerr = [e \in Elems |-> FALSE]

\* the server started on an empty store, with any retry budget and room for
\* one execution at a time
Init ==
    /\ nbRetry \in 0..MaxRetry
    /\ maxConcurJob = 1
    /\ store = [x \in Rows |-> NoRow]
    /\ InitRest

\* the server started without retries, on a store that is empty or holds the
\* finished run of an earlier process
InitCompare ==
    /\ nbRetry = 0
    /\ maxConcurJob = 1
    /\ store \in {[x \in Rows |-> NoRow],
                  [x \in Rows |-> IF x = 0 THEN LegacyRow ELSE NoRow]}
    /\ InitRest

(***************************************************************************)
(* Store lookups of the server.                                            *)
(***************************************************************************)
\* exec.Exists: a row with this status, git_ref, type and source
Exists(st, gitRef, source, typeOf, status) ==
    \E x \in Rows : /\ st[x].status = status
                    /\ st[x].git_ref = gitRef
                    /\ st[x].type = typeOf
                    /\ st[x].source = source

\* what the store answers for the planner version and the pull-request number
\* of a row: the INSERT of Prepare names neither column
RowPlanner(row) == ""
RowPullNb(row) == 0

\* exec.ExistsMacrobenchmark: as Exists, and the planner version
ExistsMacrobenchmark(st, gitRef, source, typeOf, status, planner) ==
    \E x \in Rows : /\ st[x].status = status
                    /\ st[x].git_ref = gitRef
                    /\ st[x].type = typeOf
                    /\ st[x].source = source
                    /\ RowPlanner(st[x]) = planner

checkIfExecutionExists(st, id) ==
    IF id.BenchmarkType = "micro"
    THEN Exists(st, id.GitRef, id.Source, id.BenchmarkType, StatusFinished)
    ELSE ExistsMacrobenchmark(st, id.GitRef, id.Source, id.BenchmarkType,
                              StatusFinished, id.PlannerVersion)

\* exec.GetFinishedExecution: is there a finished run with these attributes
GetFinishedExecution(st, t) ==
    \E x \in Rows : /\ st[x].status = StatusFinished
                    /\ st[x].git_ref = t.GitRef
                    /\ st[x].source = t.Source
                    /\ st[x].type = t.BenchmarkType
                    /\ RowPlanner(st[x]) = t.PlannerVersion
                    /\ RowPullNb(st[x]) = t.PullNb

\* a write to the map overlaps every unlocked lookup in progress
MapWritten == [e \in Elems |-> raced[e] \/ pc[e] = "lookup"]

(***************************************************************************)
(* addToQueue: a submission.  Under the mutex: an identifier already in    *)
(* the queue, or already finished in the store, is not inserted.           *)
(***************************************************************************)
\* the exec type set by the configuration file submitted with an identifier:
\* the file of the identifier's benchmark type
ConfigType(id) == id.BenchmarkType

\* the submission is turned down
SubmitRejected(id, lookupOk) ==
    \/ queue[id] # 0
    \/ ~lookupOk
    \/ checkIfExecutionExists(store, id)

Submit(id, lookupOk, lists) ==
    /\ ~crashed
    /\ IF SubmitRejected(id, lookupOk)
       THEN UNCHANGED <<queue, elems, nElems, raced, sent>>
       ELSE \E cw \in lists :
            /\ nElems < MaxElems
            /\ nElems' = nElems + 1
            /\ elems' = [elems EXCEPT ![nElems + 1] =
                            [identifier |-> id, config |-> ConfigType(id),
                             retry |-> nbRetry, executing |-> FALSE,
                             compareWith |-> cw]]
            /\ queue' = [queue EXCEPT ![id] = nElems + 1]
            /\ raced' = MapWritten
            /\ sent' = [sent EXCEPT ![nElems + 1] = [i \in 1..Len(cw) |-> 0]]
    /\ UNCHANGED <<execVars, currentCountExec, pc, cpc, done, cidx, polls,
                   crashed, nbRetry, maxConcurJob, attempts, cerr>>

(***************************************************************************)
(* cronExecutionQueueWatcher: one tick of the loop.                        *)
(***************************************************************************)
\* mutant: the ceiling compared with > instead of >=
WatcherSkipsOffByOne == currentCountExec > maxConcurJob

WatcherSkips == currentCountExec >= maxConcurJob

\* mutant: the watcher without the test of element.executing
DispatchableAgain == {e \in 1..nElems : queue[elems[e].identifier] = e}

\* the elements the range loop of the watcher may stop at
Dispatchable == {e \in 1..nElems : /\ queue[elems[e].identifier] = e
                                  /\ ~elems[e].executing}

\* mutant: the watcher takes the element it dispatches out of the queue
cronExecutionQueueWatcherPop ==
    /\ ~crashed
    /\ IF WatcherSkips \/ Dispatchable = {}
       THEN UNCHANGED vars
       ELSE \E e \in Dispatchable :
              /\ currentCountExec' = currentCountExec + 1
              /\ elems' = [elems EXCEPT ![e].executing = TRUE]
              /\ pc' = [pc EXCEPT ![e] = "entry"]
              /\ queue' = [queue EXCEPT ![elems[e].identifier] = 0]
              /\ UNCHANGED <<execVars, nElems, cpc, done, cidx, polls,
                             raced, crashed, nbRetry, maxConcurJob, attempts,
                             sent, cerr>>

\* mutant: the range loop of the watcher without its break
cronExecutionQueueWatcherNoBreak ==
    /\ ~crashed
    /\ IF WatcherSkips \/ Dispatchable = {}
       THEN UNCHANGED vars
       ELSE /\ currentCountExec' = currentCountExec + Cardinality(Dispatchable)
            /\ elems' = [e \in Elems |->
                            IF e \in Dispatchable
                            THEN [elems[e] EXCEPT !.executing = TRUE]
                            ELSE elems[e]]
            /\ pc' = [e \in Elems |->
                         IF e \in Dispatchable THEN "entry" ELSE pc[e]]
            /\ UNCHANGED <<execVars, queue, nElems, cpc, done, cidx, polls,
                           raced, crashed, nbRetry, maxConcurJob, attempts,
                           sent, cerr>>

cronExecutionQueueWatcher ==
    /\ ~crashed
    /\ IF WatcherSkips \/ Dispatchable = {}
       THEN UNCHANGED vars
       ELSE \E e \in Dispatchable :
              /\ currentCountExec' = currentCountExec + 1
              /\ elems' = [elems EXCEPT ![e].executing = TRUE]
              /\ pc' = [pc EXCEPT ![e] = "entry"]
              /\ UNCHANGED <<execVars, queue, nElems, cpc, done, cidx, polls,
                             raced, crashed, nbRetry, maxConcurJob, attempts, sent, cerr>>

(***************************************************************************)
(* executeElement and executeSingle.                                       *)
(***************************************************************************)
\* the test that ends the retries
RetriesExhausted(e) == elems[e].retry < 0

\* mutant: a failed attempt starts the comparator as a successful one does
RetryElementCompares(e) ==
    /\ elems' = [elems EXCEPT ![e].retry = @ - 1]
    /\ pc' = [pc EXCEPT ![e] = "entry"]
    /\ cpc' = [cpc EXCEPT ![e] = "check"]
    /\ UNCHANGED currentCountExec

\* mutant: a failed attempt gives its slot back before the retry
RetryElementReleases(e) ==
    /\ elems' = [elems EXCEPT ![e].retry = @ - 1]
    /\ pc' = [pc EXCEPT ![e] = "entry"]
    /\ currentCountExec' = currentCountExec - 1
    /\ UNCHANGED cpc

\* executeSingle returned an error: element.retry -= 1; s.executeElement(element)
RetryElement(e) ==
    /\ elems' = [elems EXCEPT ![e].retry = @ - 1]
    /\ pc' = [pc EXCEPT ![e] = "entry"]
    /\ UNCHANGED <<cpc, currentCountExec>>

\* executeSingle returned nil: go compareElement; then the decrement
SucceedElement(e) ==
    /\ cpc' = [cpc EXCEPT ![e] = "check"]
    /\ pc' = [pc EXCEPT ![e] = "decr"]
    /\ UNCHANGED <<elems, currentCountExec>>

\* the Exec is local to executeSingle: it is gone when executeSingle returns
Forget(w) == [w EXCEPT !.exec = NoExec]

\* the deferred function of executeSingle: Success runs, and its error wins
ExecuteSingleErr(err, successOk) ==
    IF ~successOk THEN "ErrSuccess" ELSE err

\* executeSingle up to the INSERT of Prepare: the step that fails, or "ok"
StartOutcomes == {"ErrNew"} \cup InsertOutcomes \cup {"ok"}

\* executeSingle: NewExecWithConfig, the fields copied from the identifier, and
\* Prepare up to its INSERT
SingleStart(e, path) ==
    LET x == AttemptUUID(e, attempts[e] + 1)
        w0 == [World(x) EXCEPT !.exec = [NoExec EXCEPT
                                           !.phase = "new",
                                           !.Source = elems[e].identifier.Source,
                                           !.GitRef = elems[e].identifier.GitRef,
                                           !.typeOf = elems[e].config]]
        w1 == PrepareInsertW(w0, path)
    IN  /\ ~crashed
        /\ pc[e] = "entry"
        /\ ~RetriesExhausted(e)
        /\ attempts' = [attempts EXCEPT ![e] = @ + 1]
        /\ IF path = "ErrNew"
           THEN /\ RetryElement(e)
                /\ UNCHANGED execVars
           ELSE IF path \in InsertOutcomes
           THEN /\ Put(x, Forget(w1))
                /\ RetryElement(e)
           ELSE /\ Put(x, w1)
                /\ pc' = [pc EXCEPT ![e] = "inserted"]
                /\ UNCHANGED <<elems, cpc, currentCountExec>>
        /\ UNCHANGED <<queue, nElems, done, cidx, polls, raced, crashed,
                       nbRetry, maxConcurJob, sent, cerr>>

\* executeSingle after the INSERT: the step that fails, or "ok"
PrepareRestOutcomes == {"ErrDir", "ErrInfra", "ErrOutput", "ok"}

\* executeSingle: the rest of Prepare, then SetOutputToDefaultPath
SinglePrepare(e, path) ==
    LET x == CurUUID(e)
        w1 == PrepareRestW(World(x), IF path = "ErrOutput" THEN "ok" ELSE path)
    IN  /\ ~crashed
        /\ pc[e] = "inserted"
        /\ IF path # "ok"
           THEN /\ Put(x, Forget(w1))
                /\ RetryElement(e)
           ELSE /\ Put(x, w1)
                /\ pc' = [pc EXCEPT ![e] = "prepared"]
                /\ UNCHANGED <<elems, cpc, currentCountExec>>
        /\ UNCHANGED <<queue, nElems, done, cidx, polls, raced, crashed,
                       nbRetry, maxConcurJob, attempts, sent, cerr>>

\* executeSingle: ExecuteWithTimeout up to the Started update of Execute
SingleExecute(e, startOk, endOk) ==
    LET x == CurUUID(e)
        w1 == ExecuteBeginW(World(x), startOk, endOk)
    IN  /\ ~crashed
        /\ pc[e] = "prepared"
        /\ IF w1.exec.phase # "executing"
           THEN /\ Put(x, Forget(w1))
                /\ RetryElement(e)
           ELSE /\ Put(x, w1)
                /\ pc' = [pc EXCEPT ![e] = "running"]
                /\ UNCHANGED <<elems, cpc, currentCountExec>>
        /\ UNCHANGED <<queue, nElems, done, cidx, polls, raced, crashed,
                       nbRetry, maxConcurJob, attempts, sent, cerr>>

\* executeSingle: the rest of ExecuteWithTimeout, then the deferred Success
SingleFinish(e, out, endOk, successOk) ==
    LET x == CurUUID(e)
        w1 == ExecuteFinishW(World(x), out, endOk)
    IN  /\ ~crashed
        /\ pc[e] = "running"
        /\ Put(x, Forget(w1))
        /\ IF ExecuteSingleErr(w1.exec.err, successOk) = "nil"
           THEN SucceedElement(e)
           ELSE RetryElement(e)
        /\ UNCHANGED <<queue, nElems, done, cidx, polls, raced, crashed,
                       nbRetry, maxConcurJob, attempts, sent, cerr>>

\* executeElement with retry < 0: the lookup queue[element.identifier],
\* made without the mutex
ExhaustedLookup(e) ==
    /\ ~crashed
    /\ pc[e] = "entry"
    /\ RetriesExhausted(e)
    /\ pc' = [pc EXCEPT ![e] = "lookup"]
    /\ raced' = [raced EXCEPT ![e] = FALSE]
    /\ UNCHANGED <<execVars, queue, elems, nElems, currentCountExec, cpc, done,
                   cidx, polls, crashed, nbRetry, maxConcurJob, attempts, sent, cerr>>

\* what the lookup may report: the truth, or anything if a write overlapped it
LookupResults(e) ==
    IF raced[e] THEN BOOLEAN ELSE {queue[elems[e].identifier] # 0}

ExhaustedFound(e, found) ==
    /\ ~crashed
    /\ pc[e] = "lookup"
    /\ found \in LookupResults(e)
    /\ pc' = [pc EXCEPT ![e] = IF found THEN "delete" ELSE "decr"]
    /\ UNCHANGED <<execVars, queue, elems, nElems, currentCountExec, cpc, done,
                   cidx, polls, raced, crashed, nbRetry, maxConcurJob, attempts, sent, cerr>>

\* the runtime detects the concurrent map read and map write and stops
ExhaustedCrash(e) ==
    /\ ~crashed
    /\ pc[e] = "lookup"
    /\ raced[e]
    /\ crashed' = TRUE
    /\ UNCHANGED <<execVars, queue, elems, nElems, currentCountExec, pc, cpc,
                   done, cidx, polls, raced, nbRetry, maxConcurJob, attempts, sent, cerr>>

\* mtx.Lock(); delete(queue, element.identifier); mtx.Unlock()
ExhaustedDelete(e) ==
    /\ ~crashed
    /\ pc[e] = "delete"
    /\ queue' = [queue EXCEPT ![elems[e].identifier] = 0]
    /\ raced' = MapWritten
    /\ pc' = [pc EXCEPT ![e] = "decr"]
    /\ UNCHANGED <<execVars, elems, nElems, currentCountExec, cpc, done, cidx,
                   polls, crashed, nbRetry, maxConcurJob, attempts, sent, cerr>>

\* mutant: the slot is given back only when the comparator has ended
decrementAfterCompare(e) ==
    /\ ~crashed
    /\ pc[e] = "decr"
    /\ cpc[e] \in {"off", "end"}
    /\ currentCountExec' = currentCountExec - 1
    /\ pc' = [pc EXCEPT ![e] = "end"]
    /\ UNCHANGED <<execVars, queue, elems, nElems, cpc, done, cidx, polls,
                   raced, crashed, nbRetry, maxConcurJob, attempts, sent, cerr>>

decrementNumberOfOnGoingExecution(e) ==
    /\ ~crashed
    /\ pc[e] = "decr"
    /\ currentCountExec' = currentCountExec - 1
    /\ pc' = [pc EXCEPT ![e] = "end"]
    /\ UNCHANGED <<execVars, queue, elems, nElems, cpc, done, cidx, polls,
                   raced, crashed, nbRetry, maxConcurJob, attempts, sent, cerr>>

(***************************************************************************)
(* compareElement, and the goroutine of executeElement that runs it and    *)
(* then deletes the element from the queue.                                *)
(***************************************************************************)
\* the test of the outer loop
CompareFinished(e) == done[e] = Len(elems[e].compareWith)

\* for done != len(element.compareWith) { time.Sleep(...) ...
CompareCheck(e) ==
    /\ ~crashed
    /\ cpc[e] = "check"
    /\ IF CompareFinished(e)
       THEN /\ cpc' = [cpc EXCEPT ![e] = "del"]
            /\ UNCHANGED <<cidx, polls>>
       ELSE /\ polls[e] < MaxPolls
            /\ polls' = [polls EXCEPT ![e] = @ + 1]
            /\ cidx' = [cidx EXCEPT ![e] = 1]
            /\ cpc' = [cpc EXCEPT ![e] = "iter"]
    /\ UNCHANGED <<execVars, queue, elems, nElems, currentCountExec, pc, done,
                   raced, crashed, nbRetry, maxConcurJob, attempts, sent, cerr>>

\* the counter after a successful notification
DoneAfterMatch(e) == done[e] + 1

\* mutant: the range loop logs an error and goes on to the next target
CompareIterKeepsGoing(e, lookupOk, notifyOk) ==
    LET cw == elems[e].compareWith
        next == IF cidx[e] = Len(cw) THEN "check" ELSE "iter"
        found == lookupOk /\ GetFinishedExecution(store, cw[cidx[e]])
    IN  /\ ~crashed
        /\ cpc[e] = "iter"
        /\ cpc' = [cpc EXCEPT ![e] = next]
        /\ cidx' = [cidx EXCEPT ![e] = @ + 1]
        /\ cerr' = [cerr EXCEPT ![e] = @ \/ ~lookupOk \/ (found /\ ~notifyOk)]
        /\ sent' = IF found THEN [sent EXCEPT ![e][cidx[e]] = @ + 1] ELSE sent
        /\ done' = IF found /\ notifyOk
                   THEN [done EXCEPT ![e] = DoneAfterMatch(e)] ELSE done
        /\ UNCHANGED <<execVars, queue, elems, nElems, currentCountExec, pc,
                       polls, raced, crashed, nbRetry, maxConcurJob, attempts>>

\* one iteration of the range loop over element.compareWith
CompareIter(e, lookupOk, notifyOk) ==
    LET cw == elems[e].compareWith
        next == IF cidx[e] = Len(cw) THEN "check" ELSE "iter"
    IN  /\ ~crashed
        /\ cpc[e] = "iter"
        /\ IF ~lookupOk
           THEN /\ cpc' = [cpc EXCEPT ![e] = "del"]
                /\ cerr' = [cerr EXCEPT ![e] = TRUE]
                /\ UNCHANGED <<done, cidx, sent>>
           ELSE IF GetFinishedExecution(store, cw[cidx[e]])
           THEN /\ sent' = [sent EXCEPT ![e][cidx[e]] = @ + 1]
                /\ IF ~notifyOk
                   THEN /\ cpc' = [cpc EXCEPT ![e] = "del"]
                        /\ cerr' = [cerr EXCEPT ![e] = TRUE]
                        /\ UNCHANGED <<done, cidx>>
                   ELSE /\ done' = [done EXCEPT ![e] = DoneAfterMatch(e)]
                        /\ cpc' = [cpc EXCEPT ![e] = next]
                        /\ cidx' = [cidx EXCEPT ![e] = @ + 1]
                        /\ UNCHANGED cerr
           ELSE /\ cpc' = [cpc EXCEPT ![e] = next]
                /\ cidx' = [cidx EXCEPT ![e] = @ + 1]
                /\ UNCHANGED <<done, sent, cerr>>
        /\ UNCHANGED <<execVars, queue, elems, nElems, currentCountExec, pc,
                       polls, raced, crashed, nbRetry, maxConcurJob, attempts>>

\* after compareElement: mtx.Lock(); delete(queue, ...); mtx.Unlock()
CompareDelete(e) ==
    /\ ~crashed
    /\ cpc[e] = "del"
    /\ queue' = [queue EXCEPT ![elems[e].identifier] = 0]
    /\ raced' = MapWritten
    /\ cpc' = [cpc EXCEPT ![e] = "end"]
    /\ UNCHANGED <<execVars, elems, nElems, currentCountExec, pc, done, cidx,
                   polls, crashed, nbRetry, maxConcurJob, attempts, sent, cerr>>

(***************************************************************************)
(* A direct user of package exec: creates Exec objects and calls Prepare   *)
(* and Execute on them, Execute once per object and with or without a      *)
(* Prepare before it.                                                      *)
(***************************************************************************)
UserNewExec(x, id) ==
    /\ x \in 1..MaxExecs
    /\ execs[x].phase = "none"
    /\ \A y \in 1..(x - 1) : execs[y].phase # "none"
    /\ execs' = [execs EXCEPT ![x] = [NoExec EXCEPT !.phase = "new",
                                                    !.Source = id.Source,
                                                    !.GitRef = id.GitRef,
                                                    !.typeOf = id.BenchmarkType]]
    /\ UNCHANGED <<store, written, serverVars>>

\* a Prepare that failed may be called again: it starts from mysql.New again
UserPrepare(x, out) ==
    /\ execs[x].phase = "new"
    /\ Len(written[x]) < MaxInserts
    /\ Put(x, PrepareW(World(x), out))
    /\ UNCHANGED serverVars

UserExecuteBegin(x, startOk, endOk) ==
    /\ execs[x].phase = "new"
    /\ Put(x, ExecuteBeginW(World(x), startOk, endOk))
    /\ UNCHANGED serverVars

UserExecuteFinish(x, out, endOk) ==
    /\ execs[x].phase = "executing"
    /\ Put(x, ExecuteFinishW(World(x), out, endOk))
    /\ UNCHANGED serverVars

NextExec ==
    \/ \E x \in UUIDs, id \in Targets : UserNewExec(x, id)
    \/ \E x \in UUIDs, out \in PrepareOutcomes : UserPrepare(x, out)
    \/ \E x \in UUIDs, startOk \in BOOLEAN, endOk \in BOOLEAN :
         UserExecuteBegin(x, startOk, endOk)
    \/ \E x \in UUIDs, out \in RunOutcomes, endOk \in BOOLEAN :
         UserExecuteFinish(x, out, endOk)

ExecSpec == Init /\ [][NextExec]_vars

(***************************************************************************)
(* The server.  Spec: every submission carries an empty compare-with list. *)
(* CompareSpec: submissions carry compare-with lists, the server retries   *)
(* nothing.                                                                *)
(***************************************************************************)
\* the steps of the server apart from the submissions
ServerStep ==
    \/ cronExecutionQueueWatcher
    \/ \E e \in Elems, path \in StartOutcomes : SingleStart(e, path)
    \/ \E e \in Elems, path \in PrepareRestOutcomes : SinglePrepare(e, path)
    \/ \E e \in Elems, startOk \in BOOLEAN, endOk \in BOOLEAN :
         SingleExecute(e, startOk, endOk)
    \/ \E e \in Elems, out \in RunOutcomes \cup TimeoutOutcomes,
          endOk \in BOOLEAN, successOk \in BOOLEAN :
         SingleFinish(e, out, endOk, successOk)
    \/ \E e \in Elems : ExhaustedLookup(e)
    \/ \E e \in Elems, found \in BOOLEAN : ExhaustedFound(e, found)
    \/ \E e \in Elems : ExhaustedCrash(e)
    \/ \E e \in Elems : ExhaustedDelete(e)
    \/ \E e \in Elems : decrementNumberOfOnGoingExecution(e)
    \/ \E e \in Elems : CompareCheck(e)
    \/ \E e \in Elems : CompareDelete(e)

Next ==
    \/ \E id \in Ids, ok \in BOOLEAN : Submit(id, ok, {<<>>})
    \/ ServerStep

Spec == Init /\ [][Next]_vars

NextCompare ==
    \/ \E id \in Ids, ok \in BOOLEAN : Submit(id, ok, CompareChoices(id))
    \/ ServerStep
    \/ \E e \in Elems, lookupOk \in BOOLEAN, notifyOk \in BOOLEAN :
         CompareIter(e, lookupOk, notifyOk)

CompareSpec == InitCompare /\ [][NextCompare]_vars

\* the server started on an empty store with room for several executions at
\* a time
InitConcur ==
    /\ nbRetry \in 0..MaxRetry
    /\ maxConcurJob = MaxCeiling
    /\ store = [x \in Rows |-> NoRow]
    /\ InitRest

ConcurSpec == InitConcur /\ [][Next]_vars

\* the identifiers submitted when the deduplication is looked at: idA, and idA
\* for another pull request
DedupIds == {idA, idP}

\* the server started without retries on an empty store
InitDedup ==
    /\ nbRetry = 0
    /\ maxConcurJob = 1
    /\ store = [x \in Rows |-> NoRow]
    /\ InitRest

NextDedup ==
    \/ \E id \in DedupIds, ok \in BOOLEAN : Submit(id, ok, {<<>>})
    \/ ServerStep

DedupSpec == InitDedup /\ [][NextDedup]_vars

(***************************************************************************)
(* Properties.                                                             *)
(***************************************************************************)
\* number of failed executeSingle calls of element e so far
Failures(e) == nbRetry - elems[e].retry

Created == 1..nElems

\* C1: in every reachable state the in-flight counter currentCountExec is
\* at least 0 and at most maxConcurJob.
C1_CounterWithinCeiling ==
    currentCountExec >= 0 /\ currentCountExec <= maxConcurJob

\* C1 witness: the counter is at the ceiling while one element is on a retry
\* and another one waits to be dispatched.
C1_Witness ==
    /\ currentCountExec = maxConcurJob
    /\ Dispatchable # {}
    /\ \E e \in Created : pc[e] = "running" /\ Failures(e) >= 1

\* C2: once an element with retry budget N has used up the budget (the initial
\* attempt and the N retries have failed), no further executeSingle call is
\* made for it, and when executeElement has gone past the removal the queue
\* no longer holds the element.
C2_ExhaustedElementRemoved ==
    [][\A e \in Created :
         Failures(e) >= nbRetry + 1 =>
            /\ attempts'[e] = attempts[e]
            /\ pc'[e] \in {"decr", "end"}
                 => queue'[elems[e].identifier] # e]_vars

\* C3: an element with retry budget N that failed on every attempt was given
\* exactly N+1 attempts; once its goroutine has ended, the queue holds no entry
\* for its identifier and, if no other element was dispatched, the counter is 0.
C3_ExhaustedElementIsGone ==
    \A e \in Created :
        (pc[e] = "end" /\ RetriesExhausted(e)) =>
            /\ attempts[e] = nbRetry + 1
            /\ queue[elems[e].identifier] = 0
            /\ (\A o \in Created \ {e} : pc[o] = "idle") => currentCountExec = 0

\* C5: an identifier that has an entry in the queue gets no new element and
\* keeps its entry until that entry is deleted, and the watcher dispatches only
\* an element that has not been dispatched before.
C5_NoDuplicateInQueue ==
    [][/\ \A id \in Ids :
            queue[id] # 0 => queue'[id] \in {queue[id], 0}
       /\ nElems' # nElems => queue[elems'[nElems'].identifier] = 0
       /\ currentCountExec' = currentCountExec + 1 =>
            \E e \in Created :
                /\ pc[e] = "idle" /\ pc'[e] = "entry"
                /\ \A o \in Elems \ {e} : pc'[o] = pc[o]]_vars

\* C5 witness: an element is in the queue, its execution running, while the
\* server would still accept another submission.
C5_Witness ==
    \E e \in Created :
        /\ queue[elems[e].identifier] = e
        /\ pc[e] = "running"
        /\ nElems < MaxElems

\* C4: within one comparator invocation no compare-with target is passed to
\* sendNotificationForRegression more than once.
C4_AtMostOneNotificationPerTarget ==
    \A e \in Created :
        \A i \in 1..Len(elems[e].compareWith) : sent[e][i] <= 1

\* C9: when the comparator reaches the test of its loop and every compare-with
\* target has a finished run in the store and has been matched, the loop ends.
C9_EndsWhenAllTargetsMatched ==
    \A e \in Created :
        (/\ cpc[e] = "check"
         /\ \A i \in 1..Len(elems[e].compareWith) :
               /\ GetFinishedExecution(store, elems[e].compareWith[i])
               /\ sent[e][i] >= 1)
        => CompareFinished(e)

\* C10: when compareElement has returned without an error, every compare-with
\* target has been matched at least once.
C10_ReturnsOnlyWhenAllMatched ==
    \A e \in Created :
        (cpc[e] \in {"del", "end"} /\ ~cerr[e]) =>
            \A i \in 1..Len(elems[e].compareWith) : sent[e][i] >= 1

\* the sequences of statuses the claim allows for a row
PathLogs ==
    {<<>>, <<StatusCreated>>, <<StatusCreated, StatusStarted>>,
     <<StatusCreated, StatusStarted, StatusFinished>>,
     <<StatusCreated, StatusStarted, StatusFailed>>}

\* C6 as stated: the statuses written to a row form a prefix of
\* Created, Started, Finished or of Created, Started, Failed.
C6_StatusPath == \A x \in Rows : written[x] \in PathLogs

\* the statuses written after the INSERTs: Started then a terminal status, or
\* Failed at once, or a prefix of these
TailLogs ==
    {<<>>, <<StatusStarted>>, <<StatusStarted, StatusFinished>>,
     <<StatusStarted, StatusFailed>>, <<StatusFailed>>}

\* k times Created
CreatedLog(k) == [i \in 1..k |-> StatusCreated]

\* C6 amended: the statuses written to a row are Created, once for each Prepare
\* that reached its INSERT, followed by a prefix of Started, Finished, of
\* Started, Failed, or by Failed alone.
C6_StatusPathOrEarlyFailed ==
    \A x \in Rows :
        \/ written[x] = <<>>
        \/ \E k \in 1..MaxInserts, t \in TailLogs :
              written[x] = CreatedLog(k) \o t

\* C6 witness: one row went through Started to Finished, another one, of an
\* Exec prepared twice, was written Failed without Started.
C6_Witness ==
    \E x, y \in UUIDs :
        /\ written[x] = <<StatusCreated, StatusStarted, StatusFinished>>
        /\ written[y] = <<StatusCreated, StatusCreated, StatusFailed>>

\* C7: once Execute has returned, the row of the run is Failed if Execute
\* returned an error and Finished otherwise.
C7_TerminalStatusAfterExecute ==
    \A x \in UUIDs :
        (execs[x].phase = "exited" /\ store[x].status # StatusNone) =>
            /\ execs[x].err = "nil" => store[x].status = StatusFinished
            /\ execs[x].err # "nil" => store[x].status = StatusFailed

\* C8: Execute on an Exec that is not prepared returns ErrorNotPrepared without
\* reaching the provisioning, and Started is never written to its row.
C8_NotPrepared ==
    \A x \in UUIDs :
        (execs[x].phase \in {"executing", "exited"} /\ ~execs[x].prepared) =>
            /\ execs[x].phase = "exited"
            /\ execs[x].err = "ErrorNotPrepared"
            /\ \A i \in 1..Len(written[x]) : written[x][i] # StatusStarted

\* C8 witness: Execute returned ErrorNotPrepared on an Exec whose Prepare had
\* failed after the insert of its row.
C8_Witness ==
    \E x \in UUIDs :
        /\ execs[x].phase = "exited"
        /\ ~execs[x].prepared
        /\ execs[x].err = "ErrorNotPrepared"
        /\ written[x] = <<StatusCreated, StatusFailed>>

\* the comparator of e waits for a target that has no finished run
WaitsForTarget(e) ==
    /\ cpc[e] \in {"check", "iter"}
    /\ \E i \in 1..Len(elems[e].compareWith) :
           ~GetFinishedExecution(store, elems[e].compareWith[i])

\* the uuids of the run records element e created
RunsOf(e) == {AttemptUUID(e, k) : k \in 1..attempts[e]}

\* C11: once an attempt of an element has succeeded, the element is at the
\* decrement of the counter or past it, and the decrement can be taken whatever
\* the position of the comparator, unless the process was stopped.
C11_SlotReleasedWithoutComparator ==
    \A e \in Created :
        cpc[e] # "off" =>
            /\ pc[e] \in {"decr", "end"}
            /\ (pc[e] = "decr" /\ ~crashed)
                 => ENABLED decrementNumberOfOnGoingExecution(e)

\* C11 witness: the slot of an element was given back and the counter is 0
\* while its comparator has used all its polls waiting for a target.
C11_Witness ==
    \E e \in Created :
        /\ pc[e] = "end"
        /\ currentCountExec = 0
        /\ WaitsForTarget(e)
        /\ polls[e] = MaxPolls

\* C12: once executeElement has returned for a succeeded element whose
\* comparator waits for a target without a finished run, the element is out of
\* the queue or its removal can be taken without the comparator finishing.
C12_RemovedWithoutComparator ==
    \A e \in Created :
        (pc[e] = "end" /\ WaitsForTarget(e) /\ ~crashed) =>
            \/ queue[elems[e].identifier] # e
            \/ ENABLED CompareDelete(e)

\* C13: when the slot of an element has been released, every run record the
\* element created is Finished or Failed.
C13_TerminalStatusBeforeRelease ==
    \A e \in Created :
        pc[e] = "end" =>
            \A x \in RunsOf(e) :
                store[x].status \in {StatusNone, StatusFinished, StatusFailed}

\* the elements a step marks executing
Marked == {e \in Elems : ~elems[e].executing /\ elems'[e].executing}

\* C14: a step marks at most one element executing, only below the ceiling,
\* with the counter incremented by exactly one and the other elements left
\* unchanged; the counter grows in no other step; a tick at the ceiling changes
\* nothing; and an element is started only in the step that marks it, once.
C14_OneDispatchPerTick ==
    [][/\ Cardinality(Marked) <= 1
       /\ Marked # {} =>
            /\ currentCountExec < maxConcurJob
            /\ currentCountExec' = currentCountExec + 1
            /\ \A o \in Elems \ Marked : elems'[o] = elems[o] /\ pc'[o] = pc[o]
       /\ currentCountExec' > currentCountExec => Marked # {}
       /\ (cronExecutionQueueWatcher /\ currentCountExec >= maxConcurJob)
            => UNCHANGED vars
       /\ \A e \in Elems :
            /\ elems[e].executing => elems'[e].executing
            /\ (pc[e] = "idle" /\ pc'[e] # "idle") <=> e \in Marked
            /\ pc[e] # "idle" => pc'[e] # "idle"]_vars

\* C14 witness: below a ceiling of two, with two elements waiting, a tick has
\* dispatched one of them and left the other waiting.
C14_Witness ==
    \E e, o \in Created :
        /\ maxConcurJob = MaxCeiling
        /\ currentCountExec = 1
        /\ pc[e] = "entry" /\ attempts[e] = 0 /\ elems[e].executing
        /\ o \in Dispatchable /\ pc[o] = "idle"

\* an executeSingle call of element e is in progress or about to be made
Active(e) ==
    \/ pc[e] \in {"inserted", "prepared", "running"}
    \/ pc[e] = "entry" /\ ~RetriesExhausted(e)

\* C15: two elements with the same identifier never have an execution attempt
\* in progress at the same time, and an attempt of an element begins only when
\* no attempt of that element is running.
C15_OneAttemptPerIdentifier ==
    /\ \A e, o \in Created :
         (e # o /\ elems[e].identifier = elems[o].identifier)
            => ~(Active(e) /\ Active(o))
    /\ \A e \in Created :
         pc[e] = "running" => execs[CurUUID(e)].phase = "executing"
                              /\ \A x \in RunsOf(e) \ {CurUUID(e)} :
                                    execs[x].phase = "none"

\* C15 witness: with room for two executions, an identifier whose first
\* element used up its retries was submitted again and its second element is
\* running a retry.
C15_Witness ==
    \E e, o \in Created :
        /\ e # o
        /\ elems[e].identifier = elems[o].identifier
        /\ maxConcurJob = MaxCeiling
        /\ pc[e] = "end"
        /\ pc[o] = "running" /\ attempts[o] = 2

\* the elements in the queue mapping that are marked executing
ExecutingInQueue ==
    {e \in Created : queue[elems[e].identifier] = e /\ elems[e].executing}

\* C16: in every state in which the mutex is free, the in-flight counter is the
\* number of elements of the queue mapping with executing = true.
C16_CounterMatchesMapping ==
    currentCountExec = Cardinality(ExecutingInQueue)

\* C17: the step in which the comparator meets an error ends compareElement;
\* after it the comparator polls no more and notifies no more; and no step of
\* the comparator changes the in-flight counter.
C17_ComparatorErrorAborts ==
    [][\A e \in Elems :
         /\ (~cerr[e] /\ cerr'[e]) => cpc'[e] = "del"
         /\ cerr[e] => /\ cerr'[e]
                       /\ cpc'[e] \in {"del", "end"}
                       /\ sent'[e] = sent[e]
                       /\ polls'[e] = polls[e]
                       /\ done'[e] = done[e]
         /\ (cpc[e] # "off" /\ cpc'[e] # cpc[e])
              => currentCountExec' = currentCountExec]_vars

\* C17 witness: a comparator ended on the failed lookup of its first target,
\* in its first poll, with no notification sent although its second target has
\* a finished run.
C17_Witness ==
    \E e \in Created :
        /\ cerr[e]
        /\ cpc[e] = "end"
        /\ polls[e] = 1
        /\ Len(elems[e].compareWith) = 2
        /\ GetFinishedExecution(store, elems[e].compareWith[2])
        /\ sent[e] = <<0, 0>>

\* a run made for the identifier id is Finished in the store
FinishedRunOf(id) ==
    \E e \in Created :
        /\ elems[e].identifier = id
        /\ \E x \in RunsOf(e) : store[x].status = StatusFinished

\* C18: checkIfExecutionExists reports an identifier exactly when the store
\* holds a finished run made for that identifier: same gitRef, source,
\* benchmark type, planner version and pull-request number.
C18_DedupMatchesAllFields ==
    \A id \in DedupIds :
        checkIfExecutionExists(store, id) <=> FinishedRunOf(id)

\* C19: the comparator of an element is started in the step in which an
\* attempt of the element succeeds and in no other step; once started it is not
\* started again and the element is attempted no more; an element that has
\* used up its retries has no comparator and no notification.
C19_ComparatorOncePerSuccess ==
    [][\A e \in Elems :
         /\ (cpc[e] = "off" /\ cpc'[e] # "off")
              <=> (pc[e] = "running" /\ pc'[e] = "decr")
         /\ cpc[e] # "off" => (cpc'[e] # "off" /\ attempts'[e] = attempts[e])
         /\ elems'[e].retry < 0 =>
              /\ cpc'[e] = "off"
              /\ \A i \in 1..Len(elems'[e].compareWith) : sent'[e][i] = 0]_vars

\* C19 witness: an element with two compare-with targets ended with its
\* retries used up and no comparator, while the comparator of another element
\* has ended after a notification.
C19_Witness ==
    \E e, o \in Created :
        /\ pc[e] = "end" /\ RetriesExhausted(e)
        /\ Len(elems[e].compareWith) = 2 /\ cpc[e] = "off"
        /\ cpc[o] = "end" /\ ~cerr[o]
        /\ \E i \in 1..Len(elems[o].compareWith) : sent[o][i] >= 1

\* the elements that hold a slot: dispatched, and not yet past the decrement
Holding == {e \in Created : pc[e] \notin {"idle", "end"}}

\* C20: the elements with an attempt in progress hold a slot, the counter is
\* the number of elements holding a slot, and the number of attempts in
\* progress is at most maxConcurJob.
C20_AttemptsWithinCeiling ==
    /\ {e \in Created : Active(e)} \subseteq Holding
    /\ Cardinality(Holding) = currentCountExec
    /\ Cardinality({e \in Created : Active(e)}) <= maxConcurJob

\* C20 witness: an element runs its last retry, still holding the only slot,
\* while another element waits in the queue.
C20_Witness ==
    \E e, o \in Created :
        /\ nbRetry >= 1
        /\ pc[e] = "running" /\ attempts[e] = nbRetry + 1
        /\ Holding = {e}
        /\ o \in Dispatchable
        /\ currentCountExec = maxConcurJob

\* C21: once one of the runs of an element is Finished in the store, no
\* further executeSingle call is made for the element.
C21_NoRetryAfterFinished ==
    [][\A e \in Created :
         (\E x \in RunsOf(e) : store[x].status = StatusFinished)
            => attempts'[e] = attempts[e]]_vars

====
